---------------------------- MODULE Spec2Model ----------------------------
(***************************************************************************)
(* Codebook features: the snap functions, the CodebookLayer (usage counts  *)
(* and code expiration) and the CodebookModel composer of                   *)
(* src/codebook_features/models.py, and the ToyGraph automaton of           *)
(* src/codebook_features/train_toy_model.py.                                *)
(*                                                                         *)
(* Tensors hold exact rationals here ([n |-> numerator, d |-> denominator],*)
(* in lowest terms), so that the comparisons of argmin/argmax and the       *)
(* normalised weights of expire_codes are exact.                            *)
(***************************************************************************)
EXTENDS Integers, Sequences, FiniteSets, Bags, TLC

\* ------------------------------------------------------------------ sizes
\* Rows of the codebook handed to a snap function, and their indices.
NumCodes == 2
Codes == 0 .. (NumCodes - 1)
\* Flattened (batch, channel) positions of one input batch.
NumPos == 2
Pos == 0 .. (NumPos - 1)
\* Components of a feature vector (dim = 2).
Dims == {0, 1}
\* Entries of dictionary rows at construction, of inputs and of gradients.
CodeVals == {0, 1}
InputVals == {-1, 0, 1}
\* Output gradients arriving at one position.
GradVecs == {[i \in Dims |-> i + 1], [i \in Dims |-> -1]}

\* ------------------------------------------------------------- rationals
Abs(a) == IF a < 0 THEN -a ELSE a

RECURSIVE GCD(_, _)
GCD(a, b) == IF b = 0 THEN a ELSE GCD(b, a % b)

Rat(n, d) ==
    LET g == GCD(Abs(n), d) IN [n |-> n \div g, d |-> d \div g]

RInt(v) == [n |-> v, d |-> 1]
RAdd(a, b) == Rat(a.n * b.d + b.n * a.d, a.d * b.d)
RSub(a, b) == Rat(a.n * b.d - b.n * a.d, a.d * b.d)
RMul(a, b) == Rat(a.n * b.n, a.d * b.d)
RLt(a, b) == a.n * b.d < b.n * a.d
RLe(a, b) == a.n * b.d <= b.n * a.d

RECURSIVE RSum(_, _)
\* Sum of f[i] over the finite set S.
RSum(f, S) ==
    IF S = {} THEN RInt(0)
    ELSE LET i == CHOOSE j \in S : TRUE IN RAdd(f[i], RSum(f, S \ {i}))

RECURSIVE ISum(_, _)
ISum(f, S) ==
    IF S = {} THEN 0
    ELSE LET i == CHOOSE j \in S : TRUE IN f[i] + ISum(f, S \ {i})

IntVec(vals) == [Dims -> {RInt(v) : v \in vals}]

\* ---------------------------------------------------------- snap functions
\* torch.matmul(inputs, codebook.T)[p][k]
matmul(u, v) == RSum([i \in Dims |-> RMul(u[i], v[i])], Dims)

\* torch.cdist(inputs, codebook, p=2)[p][k], squared: the square root is
\* strictly increasing, so argmin and its ties are those of the distance.
cdist(u, v) ==
    RSum([i \in Dims |-> RMul(RSub(u[i], v[i]), RSub(u[i], v[i]))], Dims)

RECURSIVE argmaxFrom(_, _, _)
argmaxFrom(row, k, best) ==
    IF k \notin DOMAIN row THEN best
    ELSE argmaxFrom(row, k + 1, IF RLt(row[best], row[k]) THEN k ELSE best)

RECURSIVE argminFrom_last_tie(_, _, _)
\* Faulty variant: among equal minima the last index wins.
argminFrom_last_tie(row, k, best) ==
    IF k \notin DOMAIN row THEN best
    ELSE argminFrom_last_tie(row, k + 1, IF RLe(row[k], row[best]) THEN k ELSE best)

RECURSIVE argminFrom(_, _, _)
argminFrom(row, k, best) ==
    IF k \notin DOMAIN row THEN best
    ELSE argminFrom(row, k + 1, IF RLt(row[k], row[best]) THEN k ELSE best)

\* logits.argmax(-1) and logits.argmin(-1): the first index of the extremum.
argmax(row) == argmaxFrom(row, 1, 0)
argmin(row) == argminFrom(row, 1, 0)

\* torch.nn.functional.embedding(codebook_ids, codebook)
embedding(ids, cb) == [p \in DOMAIN ids |-> cb[ids[p]]]

InnerProductSnapFunction_forward(inp, cb) ==
    LET logits == [p \in DOMAIN inp |-> [k \in DOMAIN cb |-> matmul(inp[p], cb[k])]]
        ids == [p \in DOMAIN inp |-> argmax(logits[p])]
    IN  [outputs |-> embedding(ids, cb), codebook_ids |-> ids]

\* Faulty variant: the Euclidean policy scoring by dot product.
EuclideanSnap_by_inner_product(inp, cb) == InnerProductSnapFunction_forward(inp, cb)

EuclideanSnapFunction_forward(inp, cb) ==
    LET logits == [p \in DOMAIN inp |-> [k \in DOMAIN cb |-> cdist(inp[p], cb[k])]]
        ids == [p \in DOMAIN inp |-> argmin(logits[p])]
    IN  [outputs |-> embedding(ids, cb), codebook_ids |-> ids]

\* snap_fn.apply(x, codebook)
SnapApply(fn, inp, cb) ==
    IF fn = "EuclideanSnapFunction"
    THEN EuclideanSnapFunction_forward(inp, cb)
    ELSE InnerProductSnapFunction_forward(inp, cb)

\* Faulty variant: a dense gradient, every row receiving the output
\* gradients of all positions.
embeddingGrad_dense(cb, ids, g) ==
    [k \in DOMAIN cb |->
        [i \in Dims |-> ISum([p \in DOMAIN ids |-> g[p][i]], DOMAIN ids)]]

\* torch.autograd.grad(output, codebook, grad_outputs)[0] for the embedding
\* lookup saved by forward: each row receives the sum of the output
\* gradients of the positions that looked it up.
embeddingGrad(cb, ids, g) ==
    [k \in DOMAIN cb |->
        [i \in Dims |-> ISum([p \in DOMAIN ids |-> g[p][i]],
                             {p \in DOMAIN ids : ids[p] = k})]]

\* Faulty variant: the input gradient taken through the lookup, so that
\* positions sharing a code receive the sum of their gradients.
backward_through_lookup(cb, ids, g) ==
    [grad_inputs |-> embedding(ids, embeddingGrad(cb, ids, g)),
     grad_codebook |-> embeddingGrad(cb, ids, g)]

\* ctx.saved_tensors are the codebook and the looked-up output, which
\* carries the selected indices.
BaseSnapFunction_backward(cb, ids, g) ==
    [grad_inputs |-> g, grad_codebook |-> embeddingGrad(cb, ids, g)]

SnapFns == {"EuclideanSnapFunction", "InnerProductSnapFunction"}

\* ------------------------------------------------------------ Counter
\* collections.Counter as a function on the keys it holds.
Counter == <<>>

\* self.counts[i], which is 0 for a key the Counter does not hold.
Count(c, k) == IF k \in DOMAIN c THEN c[k] ELSE 0

CounterAdd(c, k) ==
    IF k \in DOMAIN c THEN [c EXCEPT ![k] = @ + 1] ELSE c @@ (k :> 1)

RECURSIVE CounterUpdateFrom(_, _, _)
CounterUpdateFrom(c, ids, p) ==
    IF p \notin DOMAIN ids THEN c
    ELSE CounterUpdateFrom(CounterAdd(c, ids[p]), ids, p + 1)

\* Faulty variant: the counts of the batch replace the earlier ones.
CounterUpdate_overwriting(c, ids) == CounterUpdateFrom(Counter, ids, 0)

\* self.counts.update(codebook_ids.cpu().numpy().flat)
CounterUpdate(c, ids) == CounterUpdateFrom(c, ids, 0)

\* ------------------------------------------------------- CodebookLayer
\* Ranks of the tensors handed to CodebookLayer.forward.
Ranks == {2, 3, 4}

\* Faulty variant: no check of the rank.
RankAccepted_any(rank) == TRUE

\* assert len(x.shape) == 3
RankAccepted(rank) == rank = 3
\* Values torch.rand draws for one weight, before normalisation, in units
\* of the largest one.  A row of zeros only (probability 2^-24 per entry in
\* float32) is left out: its normalisation divides by zero.
RandVals == {0, 1}
RandRows(n) == {w \in [0 .. (n - 1) -> RandVals] : \E c \in DOMAIN w : w[c] # 0}

\* The output of the soft branch: a softmax-weighted average of all rows.
\* Its value needs exp and is kept abstract.
SoftAverage == "soft_average"

\* The codes expire_codes collects in underused_codes.
UnderusedCodes(size, c, threshold) ==
    {i \in 0 .. (size - 1) : i \notin DOMAIN c \/ c[i] < threshold}

RECURSIVE SetToList(_)
\* list(underused_codes): the order of a set's elements is immaterial
\* here, since every row of weights is drawn alike; ascending order.
SetToList(S) ==
    IF S = {} THEN <<>>
    ELSE LET m == CHOOSE i \in S : \A j \in S : i <= j
         IN  <<m>> \o SetToList(S \ {m})

\* weights / weights.sum(1, keepdim=True)
Normalise(w) ==
    LET total == ISum(w, DOMAIN w) IN [c \in DOMAIN w |-> Rat(w[c], total)]

\* torch.einsum("uc,cd->ud", weights, self.codebook.weight)
einsum(weights, cb) ==
    [u \in DOMAIN weights |->
        [i \in Dims |->
            RSum([c \in DOMAIN cb |-> RMul(weights[u][c], cb[c][i])], DOMAIN cb)]]

\* self.codebook.weight[underused_codes] = new_codes, where an empty
\* index tensor has a floating dtype and raises IndexError.
\* Faulty variant: the new rows appended to the dictionary.
IndexPut_appending(cb, index, new_codes) ==
    IF index = <<>> THEN [raised |-> "IndexError", weight |-> cb, written |-> {}]
    ELSE LET n == Cardinality(DOMAIN cb) IN
         [raised |-> "None",
          weight |-> [k \in 0 .. (n + Len(new_codes) - 1) |->
                        IF k < n THEN cb[k] ELSE new_codes[k - n + 1]],
          written |-> {index[u] : u \in DOMAIN index}]

IndexPut(cb, index, new_codes) ==
    IF index = <<>> THEN [raised |-> "IndexError", weight |-> cb, written |-> {}]
    ELSE [raised |-> "None",
          weight |-> [k \in DOMAIN cb |->
                        IF \E u \in DOMAIN index : index[u] = k
                        THEN new_codes[CHOOSE u \in DOMAIN index : index[u] = k]
                        ELSE cb[k]],
          written |-> {index[u] : u \in DOMAIN index}]

RECURSIVE RowByRowFrom(_, _, _, _)
RowByRowFrom(cb, index, weights, u) ==
    IF u \notin DOMAIN index THEN cb
    ELSE RowByRowFrom([cb EXCEPT ![index[u]] = einsum(weights, cb)[u]],
                      index, weights, u + 1)

\* Faulty variant: each replacement computed from the rows as rewritten
\* so far.
Recycle_row_by_row(cb, index, weights) ==
    IF index = <<>> THEN IndexPut(cb, index, <<>>)
    ELSE [raised |-> "None", weight |-> RowByRowFrom(cb, index, weights, 1),
          written |-> {index[u] : u \in DOMAIN index}]

\* new_codes = einsum(weights, weight); weight[underused_codes] = new_codes
Recycle(cb, index, weights) == IndexPut(cb, index, einsum(weights, cb))

\* ------------------------------------------------------------------ state
VARIABLES
    \* one application of a snap function and of its backward rule
    fn, inputs, codebook, outputs, codebook_ids,
    grad_outputs, grad_inputs, grad_codebook, pc,
    \* a CodebookLayer: codebook.weight, num_codes, counts, soft_snap, snap_fn
    weight, num_codes, counts, soft_snap, snap_fn,
    \* its last call: name, rank of the tensor handed to forward (0 for
    \* another call), exception raised, output and selected codes
    call, x_rank, raised, output, ids,
    \* history: the codes every hard forward selected (a bag), the last
    \* expire_codes call, and the numbers of calls made
    selected, expired, nForward, nExpire,
    \* the snap flag of the TransformerLayerWrapper that owns the layer, and
    \* the counts of a second CodebookLayer
    snap, other_counts,
    \* a backbone (layer count, layer list, requires_grad of every parameter),
    \* the arguments of the composer's constructor, the composer it built
    \* and the exception it raised
    n_layer, layers, requires_grad, layers_to_snap, similarity_metric,
    composer, cm_raised, cm_pc,
    \* the composer's last call (name and arguments) and what it returned,
    \* the counts of the installed codebook layers, and the number of calls
    \* made on the composer after its construction
    cm_call, cm_ret, cb_counts, nCalls,
    \* a KmeansEmbedding: the rows staged by load_data (empty for None) and
    \* the attribute _weight (empty until initialize sets it)
    data, _weight,
    \* a ToyGraph: the constructor's arguments N and edges, the transition
    \* matrix it built, its last call with the argument (length or traj),
    \* what the call returned (trajectory or accepted) and what it raised
    N, edges, transition_matrix, toy_pc, toy_call, length, trajectory,
    traj, accepted, toy_raised

snapVars == <<fn, inputs, codebook, outputs, codebook_ids,
              grad_outputs, grad_inputs, grad_codebook, pc>>
layerVars == <<weight, num_codes, counts, soft_snap, snap_fn, call, x_rank, raised, output, ids,
               selected, expired, nForward, nExpire, snap, other_counts>>

modelVars == <<n_layer, layers, requires_grad, layers_to_snap,
               similarity_metric, composer, cm_raised, cm_pc,
               cm_call, cm_ret, cb_counts, nCalls>>

kmeansVars == <<data, _weight>>

toyVars == <<N, edges, transition_matrix, toy_pc, toy_call, length,
             trajectory, traj, accepted, toy_raised>>

vars == <<snapVars, layerVars, modelVars, kmeansVars, toyVars>>

None == "None"

SnapIdle ==
    /\ fn = None /\ inputs = None /\ codebook = None /\ outputs = None
    /\ codebook_ids = None /\ grad_outputs = None /\ grad_inputs = None
    /\ grad_codebook = None /\ pc = "idle"

LayerIdle ==
    /\ weight = None /\ num_codes = 0 /\ counts = Counter /\ soft_snap = FALSE
    /\ snap_fn = None /\ call = None /\ x_rank = 0 /\ raised = None /\ output = None
    /\ ids = None /\ selected = EmptyBag /\ expired = None
    /\ nForward = 0 /\ nExpire = 0 /\ snap = FALSE /\ other_counts = Counter

KmeansIdle == data = <<>> /\ _weight = <<>>

ToyIdle ==
    /\ N = 0 /\ edges = 0 /\ transition_matrix = <<>> /\ toy_pc = "idle"
    /\ toy_call = None /\ length = 0 /\ trajectory = <<>> /\ traj = <<>>
    /\ accepted = FALSE /\ toy_raised = None

ModelIdle ==
    /\ n_layer = 0 /\ layers = <<>> /\ requires_grad = <<>>
    /\ layers_to_snap = <<>> /\ similarity_metric = None
    /\ composer = None /\ cm_raised = None /\ cm_pc = "idle"
    /\ cm_call = <<>> /\ cm_ret = <<>> /\ cb_counts = <<>> /\ nCalls = 0

\* ------------------------------------------ the snap function on its own
InitSnap ==
    /\ fn \in SnapFns
    /\ codebook \in [Codes -> IntVec(CodeVals)]
    /\ inputs = None
    /\ outputs = None
    /\ codebook_ids = None
    /\ grad_outputs = None
    /\ grad_inputs = None
    /\ grad_codebook = None
    /\ pc = "ready"
    /\ LayerIdle
    /\ ModelIdle
    /\ ToyIdle
    /\ KmeansIdle

\* outputs, codebook_ids = snap_fn.apply(inputs, codebook)
Forward ==
    /\ pc = "ready"
    /\ \E inp \in [Pos -> IntVec(InputVals)] :
        \E r \in {SnapApply(fn, inp, codebook)} :
        /\ inputs' = inp
        /\ outputs' = r.outputs
        /\ codebook_ids' = r.codebook_ids
    /\ pc' = "forward"
    /\ UNCHANGED <<fn, codebook, grad_outputs, grad_inputs, grad_codebook>>
    /\ UNCHANGED <<layerVars, modelVars, kmeansVars, toyVars>>

\* The backward rule, on the tensors forward saved in ctx.
Backward ==
    /\ pc = "forward"
    /\ \E g \in [Pos -> GradVecs] :
        \E r \in {BaseSnapFunction_backward(codebook, codebook_ids, g)} :
        /\ grad_outputs' = g
        /\ grad_inputs' = r.grad_inputs
        /\ grad_codebook' = r.grad_codebook
    /\ pc' = "backward"
    /\ UNCHANGED <<fn, inputs, codebook, outputs, codebook_ids>>
    /\ UNCHANGED <<layerVars, modelVars, kmeansVars, toyVars>>

NextSnap == Forward \/ Backward

SpecSnap == InitSnap /\ [][NextSnap]_vars

\* ------------------------------------------------- a CodebookLayer's life
MaxForward == 2
MaxExpire == 1
MaxThreshold == 2
\* The layers constructed: num_codes, and the rows nn.Embedding may draw.
LayerNumCodes == {1, 2}
InitRows == {v \in IntVec(CodeVals) : v[0].n + v[1].n = 1}
\* Batches handed to forward.
LayerInputs == [Pos -> InitRows]

\* CodebookLayer.__init__: nn.Embedding draws the rows at random.
Init ==
    /\ num_codes \in LayerNumCodes
    /\ weight \in [0 .. (num_codes - 1) -> InitRows]
    /\ counts = Counter
    /\ soft_snap \in BOOLEAN
    /\ snap_fn \in SnapFns
    /\ call = "__init__"
    /\ x_rank = 0
    /\ raised = None
    /\ output = None
    /\ ids = None
    /\ selected = EmptyBag
    /\ expired = None
    /\ nForward = 0
    /\ nExpire = 0
    /\ snap = FALSE
    /\ other_counts = Counter
    /\ SnapIdle
    /\ ModelIdle
    /\ ToyIdle
    /\ KmeansIdle

\* CodebookLayer.forward(x) on a tensor that is not of rank 3.
ForwardBadRank ==
    /\ nForward < MaxForward
    /\ \E rank \in Ranks :
        /\ ~RankAccepted(rank)
        /\ x_rank' = rank
        /\ call' = "forward"
        /\ raised' = "AssertionError"
        /\ output' = None
        /\ ids' = None
    /\ nForward' = nForward + 1
    /\ UNCHANGED <<snap, other_counts>>
    /\ UNCHANGED <<weight, num_codes, counts, soft_snap, snap_fn, selected, expired, nExpire>>
    /\ UNCHANGED <<snapVars, modelVars, kmeansVars, toyVars>>

\* CodebookLayer.forward(x), soft_snap = False.
ForwardHard ==
    /\ nForward < MaxForward
    /\ ~soft_snap
    /\ \E rank \in Ranks : RankAccepted(rank) /\ x_rank' = rank
    /\ \E x \in LayerInputs :
        \E r \in {SnapApply(snap_fn, x, weight)} :
            /\ output' = r.outputs
            /\ ids' = r.codebook_ids
            /\ counts' = CounterUpdate(counts, r.codebook_ids)
            /\ selected' = selected (+) SetToBag({r.codebook_ids})
    /\ call' = "forward"
    /\ raised' = None
    /\ nForward' = nForward + 1
    /\ UNCHANGED <<snap, other_counts>>
    /\ UNCHANGED <<weight, num_codes, soft_snap, snap_fn, expired, nExpire>>
    /\ UNCHANGED <<snapVars, modelVars, kmeansVars, toyVars>>

\* CodebookLayer.forward(x), soft_snap = True.
ForwardSoft ==
    /\ nForward < MaxForward
    /\ soft_snap
    /\ \E rank \in Ranks : RankAccepted(rank) /\ x_rank' = rank
    /\ \E x \in LayerInputs :
        /\ output' = SoftAverage
        /\ ids' = None
    /\ call' = "forward"
    /\ raised' = None
    /\ nForward' = nForward + 1
    /\ UNCHANGED <<snap, other_counts>>
    /\ UNCHANGED <<weight, num_codes, counts, soft_snap, snap_fn, selected, expired, nExpire>>
    /\ UNCHANGED <<snapVars, modelVars, kmeansVars, toyVars>>

\* CodebookLayer.expire_codes(threshold)
ExpireCodes ==
    /\ nExpire < MaxExpire
    /\ \E threshold \in 0 .. MaxThreshold :
        LET underused_codes ==
                SetToList(UnderusedCodes(Cardinality(DOMAIN weight), counts, threshold))
        IN
        \E rand \in [DOMAIN underused_codes -> RandRows(Cardinality(DOMAIN weight))] :
            \E weights \in {[u \in DOMAIN rand |-> Normalise(rand[u])]} :
            \E put \in {Recycle(weight, underused_codes, weights)} :
                /\ weight' = put.weight
                \* except IndexError: pass
                /\ raised' = IF put.raised = "IndexError" THEN None ELSE put.raised
                /\ expired' = [threshold |-> threshold, before |-> weight,
                               weights |-> weights, index |-> underused_codes,
                               written |-> put.written]
    /\ call' = "expire_codes"
    /\ x_rank' = 0
    /\ output' = None
    /\ ids' = None
    /\ nExpire' = nExpire + 1
    /\ UNCHANGED <<snap, other_counts>>
    /\ UNCHANGED <<num_codes, counts, soft_snap, snap_fn, selected, nForward>>
    /\ UNCHANGED <<snapVars, modelVars, kmeansVars, toyVars>>

Next == ForwardBadRank \/ ForwardHard \/ ForwardSoft \/ ExpireCodes

Spec == Init /\ [][Next]_vars

\* The dictionary of the second CodebookLayer, of the same size.
OtherWeight(n) ==
    [k \in 0 .. (n - 1) |-> [d \in Dims |-> RInt(IF d = k % 2 THEN 1 ELSE 0)]]

\* Hidden states the wrapped layer, and the layer before the second
\* CodebookLayer, return: the same vector at every position.
WrappedOutputs == {[p \in Pos |-> v] : v \in InitRows}

\* Faulty variant: the codebook layer called whatever the flag.
WrapperSnaps_always(flag) == TRUE

\* if self.snap:
WrapperSnaps(flag) == flag

\* TransformerLayerWrapper.forward of the wrapper that owns the layer: the
\* wrapped layer returns hidden states x first, and the codebook layer is
\* called on them when the flag is set.
WrapperForward ==
    /\ nForward < MaxForward
    /\ \E x \in WrappedOutputs :
        IF ~WrapperSnaps(snap)
        THEN /\ output' = x
             /\ ids' = None
             /\ UNCHANGED <<counts, selected>>
        ELSE IF soft_snap
        THEN /\ output' = SoftAverage
             /\ ids' = None
             /\ UNCHANGED <<counts, selected>>
        ELSE \E r \in {SnapApply(snap_fn, x, weight)} :
             /\ output' = r.outputs
             /\ ids' = r.codebook_ids
             /\ counts' = CounterUpdate(counts, r.codebook_ids)
             /\ selected' = selected (+) SetToBag({r.codebook_ids})
    /\ call' = "wrapper_forward"
    /\ x_rank' = 3
    /\ raised' = None
    /\ nForward' = nForward + 1
    /\ UNCHANGED <<weight, num_codes, soft_snap, snap_fn, expired, nExpire,
                   snap, other_counts>>
    /\ UNCHANGED <<snapVars, modelVars, kmeansVars, toyVars>>

\* The hard forward of the second CodebookLayer.
OtherForward ==
    /\ nForward < MaxForward
    /\ \E x \in WrappedOutputs :
        \E r \in {SnapApply("EuclideanSnapFunction", x, OtherWeight(num_codes))} :
            other_counts' = CounterUpdate(other_counts, r.codebook_ids)
    /\ call' = "other_forward"
    /\ x_rank' = 3
    /\ raised' = None
    /\ output' = None
    /\ ids' = None
    /\ nForward' = nForward + 1
    /\ UNCHANGED <<weight, num_codes, counts, soft_snap, snap_fn, selected,
                   expired, nExpire, snap>>
    /\ UNCHANGED <<snapVars, modelVars, kmeansVars, toyVars>>

\* A CodebookLayer of two codes owned by a TransformerLayerWrapper (built
\* with the default snap function), beside a second CodebookLayer.
InitWrapped ==
    /\ num_codes = 2
    /\ weight = OtherWeight(num_codes)
    /\ counts = Counter
    /\ soft_snap \in BOOLEAN
    /\ snap_fn = "EuclideanSnapFunction"
    /\ call = "__init__"
    /\ x_rank = 0
    /\ raised = None
    /\ output = None
    /\ ids = None
    /\ selected = EmptyBag
    /\ expired = None
    /\ nForward = 0
    /\ nExpire = 0
    /\ snap \in BOOLEAN
    /\ other_counts = Counter
    /\ SnapIdle
    /\ ModelIdle
    /\ ToyIdle
    /\ KmeansIdle

NextWrapped ==
    \/ ForwardBadRank
    \/ ForwardHard
    \/ ForwardSoft
    \/ ExpireCodes
    \/ WrapperForward
    \/ OtherForward

SpecWrapped == InitWrapped /\ [][NextWrapped]_vars

\* ----------------------------------- a CodebookLayer with kmeans_init
MaxData == 2
\* Rows of the batches handed to load_data, and the batches.
DataVecs == IntVec(CodeVals)
DataBatches == UNION {[1 .. l -> DataVecs] : l \in 1 .. MaxData}

\* The mean of the rows of d at the indices S.
Mean(d, S) ==
    [i \in Dims |-> Rat(ISum([j \in S |-> d[j][i].n], S), Cardinality(S))]

\* KMeans(n_clusters=k).fit(d).cluster_centers_: the rows are split into k
\* non-empty clusters and every centre is the mean of its cluster; which
\* split is found depends on the random start.
KMeans(d, k) ==
    {[c \in 0 .. (k - 1) |-> Mean(d, {j \in DOMAIN d : labels[j] = c})] :
        labels \in {l \in [DOMAIN d -> 0 .. (k - 1)] :
                        \A c \in 0 .. (k - 1) : \E j \in DOMAIN d : l[j] = c}}

\* CodebookLayer(dim, num_codes, kmeans_init=True): the codebook is a
\* KmeansEmbedding, whose rows nn.Embedding draws at random.
InitKmeans ==
    /\ num_codes = 2
    /\ weight \in [0 .. (num_codes - 1) -> InitRows]
    /\ counts = Counter
    /\ soft_snap = FALSE
    /\ snap_fn = "EuclideanSnapFunction"
    /\ call = "__init__"
    /\ x_rank = 0
    /\ raised = None
    /\ output = None
    /\ ids = None
    /\ selected = EmptyBag
    /\ expired = None
    /\ nForward = 0
    /\ nExpire = 0
    /\ snap = FALSE
    /\ other_counts = Counter
    /\ data = <<>>
    /\ _weight = <<>>
    /\ SnapIdle
    /\ ModelIdle
    /\ ToyIdle

\* What a call on the KmeansEmbedding leaves alone.
KmeansCall(name) ==
    /\ call' = name
    /\ x_rank' = 0
    /\ output' = None
    /\ ids' = None
    /\ UNCHANGED <<weight, num_codes, counts, soft_snap, snap_fn, selected,
                   expired, nForward, nExpire, snap, other_counts>>
    /\ UNCHANGED <<snapVars, modelVars, toyVars>>

\* KmeansEmbedding.load_data(batch)
LoadData ==
    /\ \E batch \in DataBatches :
        /\ Len(data) + Len(batch) <= MaxData
        /\ data' = data \o batch
    /\ raised' = None
    /\ KmeansCall("load_data")
    /\ UNCHANGED _weight

\* KmeansEmbedding.initialize(k)
Initialize ==
    /\ \E k \in 1 .. num_codes :
        IF data = <<>>
        THEN \* None has no detach
             /\ raised' = "AttributeError"
             /\ UNCHANGED <<data, _weight>>
        ELSE IF Len(data) < k
        THEN \* KMeans.fit: fewer samples than clusters
             /\ raised' = "ValueError"
             /\ UNCHANGED <<data, _weight>>
        ELSE \E cluster_centers \in KMeans(data, k) :
             /\ _weight' = cluster_centers
             /\ data' = <<>>
             /\ raised' = None
    /\ KmeansCall("initialize")

NextKmeans == LoadData \/ Initialize \/ ForwardHard

SpecKmeans == InitKmeans /\ [][NextKmeans]_vars

\* ------------------------------------------------------- CodebookModel
MaxLayers == 6
MaxRequest == 2

\* Layer indices a caller may ask for on n layers: the valid ones, from
\* -n to n - 1, and one beyond at either end.
RequestVals(n) == (-(n + 1)) .. n
Requests(n) == UNION {[1 .. l -> RequestVals(n)] : l \in 0 .. MaxRequest}
Metrics == {"euclidean", "inner_product", "cosine"}

\* Parameters of the backbone: the input embedding and one per layer.
BackboneParams(n) == {<<"wte">>} \cup {<<"h", i>> : i \in 0 .. (n - 1)}
\* The parameters frozen before the composer is built.
FrozenBefore(n) == {{}, {<<"wte">>}, {<<"h", 0>>}, BackboneParams(n)}

\* A layer of the backbone as loaded.
PlainLayer(i) == [wrapper |-> FALSE, transformer_layer |-> i]

RECURSIVE NormaliseFrom(_, _, _)
\* Lines 317-320; i is the loop variable of the source, lst is 1-based.
NormaliseFrom(lst, num_layers, i) ==
    IF i = Len(lst) THEN [raised |-> None, list |-> lst]
    ELSE IF ~(-num_layers <= i /\ i < num_layers)
         THEN [raised |-> "AssertionError", list |-> lst]
         ELSE NormaliseFrom(IF lst[i + 1] < 0
                            THEN [lst EXCEPT ![i + 1] = @ + num_layers]
                            ELSE lst,
                            num_layers, i + 1)

RECURSIVE Insert(_, _)
Insert(v, srt) ==
    IF srt = <<>> \/ v < Head(srt) THEN <<v>> \o srt
    ELSE <<Head(srt)>> \o Insert(v, Tail(srt))

RECURSIVE sorted(_)
\* sorted(self.layers_to_snap)
sorted(lst) == IF lst = <<>> THEN <<>> ELSE Insert(Head(lst), sorted(Tail(lst)))

\* Faulty variant: the metric falling back to the default.
SelectSnapFn_defaulting(metric) ==
    IF metric = "inner_product"
    THEN [raised |-> None, snap_fn |-> "InnerProductSnapFunction"]
    ELSE [raised |-> None, snap_fn |-> "EuclideanSnapFunction"]

\* Lines 326-333.
SelectSnapFn(metric) ==
    IF metric = "euclidean"
    THEN [raised |-> None, snap_fn |-> "EuclideanSnapFunction"]
    ELSE IF metric = "inner_product"
         THEN [raised |-> None, snap_fn |-> "InnerProductSnapFunction"]
         ELSE [raised |-> "ValueError", snap_fn |-> None]

\* Faulty variant: nothing frozen.
Frozen_nothing(rg) == rg

\* freeze_model_params: every parameter model.parameters() yields.
Frozen(rg) == [q \in DOMAIN rg |-> FALSE]

Elems(lst) == {lst[j] : j \in DOMAIN lst}

\* list(layer.parameters()): the parameters of the block and, for a
\* wrapper, those of its codebook layer after them.
LayerParameters(layer) ==
    IF layer.wrapper
    THEN <<<<"h", layer.transformer_layer>>, <<"codebook", layer.transformer_layer>>>>
    ELSE <<<<"h", layer.transformer_layer>>>>

\* TransformerLayerWrapper(layers[i], dim, num_codes, snap_fn)
Wrapper(layer, snap_function) ==
    [wrapper |-> TRUE, transformer_layer |-> layer.transformer_layer,
     snap |-> TRUE,
     codebook_layer |-> [snap_fn |-> snap_function,
                         layer |-> layer.transformer_layer]]

\* Faulty variant: the registry keyed by the order of installation.
AddCodebook_keyed_by_order(st, i) ==
    LET with_params ==
            [st EXCEPT !.model_params = Append(@, LayerParameters(st.layers[i + 1]))]
    IN  IF i \in Elems(st.layers_to_snap)
        THEN [with_params EXCEPT
                !.layers[i + 1] = Wrapper(@, st.snap_fn),
                !.requires_grad = @ @@ (<<"codebook", i>> :> TRUE),
                !.codebook_params = Append(@, <<"codebook", i>>),
                !.all_codebooks =
                    @ @@ (Cardinality(DOMAIN @) :> Wrapper(st.layers[i + 1], st.snap_fn).codebook_layer)]
        ELSE with_params

\* Faulty variant: the parameters of a layer collected after it was wrapped.
AddCodebook_params_after_wrapping(st, i) ==
    LET wrapped ==
            IF i \in Elems(st.layers_to_snap)
            THEN [st EXCEPT
                    !.layers[i + 1] = Wrapper(@, st.snap_fn),
                    !.requires_grad = @ @@ (<<"codebook", i>> :> TRUE),
                    !.codebook_params = Append(@, <<"codebook", i>>),
                    !.all_codebooks =
                        @ @@ (i :> Wrapper(st.layers[i + 1], st.snap_fn).codebook_layer)]
            ELSE st
    IN  [wrapped EXCEPT !.model_params = Append(@, LayerParameters(wrapped.layers[i + 1]))]

\* One iteration of the loop of add_codebooks, on layer i; st holds the
\* layer list, the flags of the parameters and the three collections of
\* the composer.
AddCodebook(st, i) ==
    LET with_params ==
            [st EXCEPT !.model_params = Append(@, LayerParameters(st.layers[i + 1]))]
    IN  IF i \in Elems(st.layers_to_snap)
        THEN [with_params EXCEPT
                !.layers[i + 1] = Wrapper(@, st.snap_fn),
                !.requires_grad = @ @@ (<<"codebook", i>> :> TRUE),
                !.codebook_params = Append(@, <<"codebook", i>>),
                !.all_codebooks =
                    @ @@ (i :> Wrapper(st.layers[i + 1], st.snap_fn).codebook_layer)]
        ELSE with_params

RECURSIVE AddCodebooksFrom(_, _)
\* add_codebooks, from layer i on.
AddCodebooksFrom(st, i) ==
    IF i = Len(st.layers) THEN st
    ELSE AddCodebooksFrom(AddCodebook(st, i), i + 1)

\* Faulty variant: the list kept in the order given.
Normalised_unsorted(lst, num_layers) == NormaliseFrom(lst, num_layers, 0)

\* Lines 315-321: the list normalised and sorted, or the exception raised.
Normalised(lst, num_layers) ==
    LET r == NormaliseFrom(lst, num_layers, 0) IN
    IF r.raised # None THEN r ELSE [raised |-> None, list |-> sorted(r.list)]

\* A backbone as loaded, and the arguments of one construction.
InitModel ==
    /\ n_layer \in 1 .. MaxLayers
    /\ layers = [j \in 1 .. n_layer |-> PlainLayer(j - 1)]
    /\ \E frozen \in FrozenBefore(n_layer) :
        requires_grad = [q \in BackboneParams(n_layer) |-> q \notin frozen]
    /\ layers_to_snap \in Requests(n_layer)
    /\ similarity_metric \in Metrics
    /\ composer = None
    /\ cm_raised = None
    /\ cm_pc = "new"
    /\ cm_call = <<>>
    /\ cm_ret = <<>>
    /\ cb_counts = <<>>
    /\ nCalls = 0
    /\ SnapIdle
    /\ LayerIdle
    /\ KmeansIdle
    /\ ToyIdle

\* GPT2CodebookModel(model, num_codes, layers_to_snap, similarity_metric):
\* CodebookModel.__init__ and then add_codebooks.
Construct ==
    /\ cm_pc = "new"
    /\ \E lts \in {Normalised(layers_to_snap, n_layer)} :
       \E sel \in {SelectSnapFn(similarity_metric)} :
        IF lts.raised # None
        THEN /\ cm_raised' = lts.raised
             /\ cm_pc' = "failed"
             /\ UNCHANGED <<layers, requires_grad, composer, cb_counts>>
        ELSE IF sel.raised # None
        THEN /\ cm_raised' = sel.raised
             /\ cm_pc' = "failed"
             /\ requires_grad' = Frozen(requires_grad)
             /\ UNCHANGED <<layers, composer, cb_counts>>
        ELSE \E st \in {AddCodebooksFrom(
                            [layers |-> layers,
                             requires_grad |-> Frozen(requires_grad),
                             layers_to_snap |-> lts.list,
                             snap_fn |-> sel.snap_fn,
                             codebook_params |-> <<>>,
                             model_params |-> <<>>,
                             all_codebooks |-> <<>>], 0)} :
             /\ layers' = st.layers
             /\ requires_grad' = st.requires_grad
             /\ composer' = [layers_to_snap |-> st.layers_to_snap,
                             snap_fn |-> st.snap_fn,
                             codebook_params |-> st.codebook_params,
                             model_params |-> st.model_params,
                             all_codebooks |-> st.all_codebooks]
             /\ cb_counts' = [i \in DOMAIN st.all_codebooks |-> Counter]
             /\ cm_raised' = None
             /\ cm_pc' = "built"
    /\ cm_call' = <<"__init__">>
    /\ UNCHANGED <<n_layer, layers_to_snap, similarity_metric, cm_ret, nCalls>>
    /\ UNCHANGED <<snapVars, layerVars, kmeansVars, toyVars>>

NextModel == Construct

SpecModel == InitModel /\ [][NextModel]_vars

\* ------------------------------------------ a composer after construction
MaxCalls == 2
\* The backbones and requests the composers used afterwards are built from.
ComposerLayers == {2, 4}
ComposerRequests == {<<>>, <<0>>, <<-1>>, <<0, -1>>, <<1, 0>>}

\* layer.snap = b: the attribute is set, or created on an object without it.
SetSnap(layer, b) ==
    IF "snap" \in DOMAIN layer THEN [layer EXCEPT !.snap = b]
    ELSE layer @@ [snap |-> b]

\* Faulty variant: the flag set on every layer of the backbone.
SetSnapOfSelected_on_every_layer(lys, lts, b) ==
    [j \in DOMAIN lys |-> SetSnap(lys[j], b)]

\* The loop of enable_codebooks (b = TRUE) and of disable_codebooks.
SetSnapOfSelected(lys, lts, b) ==
    [j \in DOMAIN lys |->
        IF (j - 1) \in Elems(lts) THEN SetSnap(lys[j], b) ELSE lys[j]]

\* unfreeze_model_params: every parameter model.parameters() yields.
Unfrozen(rg) == [q \in DOMAIN rg |-> TRUE]

\* The dictionary nn.Embedding drew for the codebook layer of layer i.
InstalledWeight(i) ==
    [k \in Codes |->
        [d \in Dims |-> RInt(IF k = 0 \/ d = (k - 1) % 2 THEN 1 ELSE 0)]]

\* The value block i of the backbone returns on hidden states h: a tuple of
\* the new hidden states, the cache entry and, when asked for, the attention
\* weights. Blocks of even index swap the two components of every vector,
\* those of odd index rotate the positions.
Block(i, h, output_attentions) ==
    LET hidden == IF i % 2 = 0
                  THEN [p \in DOMAIN h |-> [d \in Dims |-> h[p][1 - d]]]
                  ELSE [p \in DOMAIN h |-> h[(p + 1) % Cardinality(DOMAIN h)]]
    IN  IF output_attentions
        THEN <<hidden, <<"present", i>>, <<"attentions", i>>>>
        ELSE <<hidden, <<"present", i>>>>

\* CodebookLayer.forward(x) of an installed layer (hard mode, rank 3), c
\* being its counts.
CodebookLayer_forward(codebook_layer, x, c) ==
    LET r == SnapApply(codebook_layer.snap_fn, x, InstalledWeight(codebook_layer.layer))
    IN  [snapped_output |-> r.outputs, counts |-> CounterUpdate(c, r.codebook_ids)]

\* Faulty variant: the codebook applied whatever the flag.
TransformerLayerWrapper_forward_ignoring_snap(layer, layer_outputs, c) ==
    LET f == CodebookLayer_forward(layer.codebook_layer, layer_outputs[1], c)
    IN  [layer_outputs |-> <<f.snapped_output>> \o Tail(layer_outputs),
         counts |-> f.counts]

\* Faulty variant: only the snapped hidden states returned.
TransformerLayerWrapper_forward_first_only(layer, layer_outputs, c) ==
    IF layer.snap
    THEN LET f == CodebookLayer_forward(layer.codebook_layer, layer_outputs[1], c)
         IN  [layer_outputs |-> <<f.snapped_output>>, counts |-> f.counts]
    ELSE [layer_outputs |-> layer_outputs, counts |-> c]

\* TransformerLayerWrapper.forward, given what the wrapped layer returned.
TransformerLayerWrapper_forward(layer, layer_outputs, c) ==
    IF layer.snap
    THEN LET f == CodebookLayer_forward(layer.codebook_layer, layer_outputs[1], c)
         IN  [layer_outputs |-> <<f.snapped_output>> \o Tail(layer_outputs),
              counts |-> f.counts]
    ELSE [layer_outputs |-> layer_outputs, counts |-> c]

\* One layer of the list called on the hidden states st holds: st keeps
\* the hidden states, the counts of the codebook layers, and for every
\* layer called what the block returned and what the layer of the list
\* returned.
CallLayer(layer, st, output_attentions) ==
    LET i == layer.transformer_layer IN
    CHOOSE after \in
        {IF layer.wrapper
         THEN CHOOSE snapped \in
                {[hidden_states |-> w.layer_outputs[1],
                  counts |-> [st.counts EXCEPT ![i] = w.counts],
                  block_outputs |-> Append(st.block_outputs, block_outputs),
                  layer_outputs |-> Append(st.layer_outputs, w.layer_outputs)] :
                 w \in {TransformerLayerWrapper_forward(layer, block_outputs,
                                                        st.counts[i])}} : TRUE
         ELSE [hidden_states |-> block_outputs[1],
               counts |-> st.counts,
               block_outputs |-> Append(st.block_outputs, block_outputs),
               layer_outputs |-> Append(st.layer_outputs, block_outputs)] :
         block_outputs \in {Block(i, st.hidden_states, output_attentions)}} : TRUE

RECURSIVE RunLayers(_, _, _, _)
\* The forward of the backbone from layer lys[j] on: every layer is called
\* on the hidden states the one before returned.
RunLayers(lys, st, j, output_attentions) ==
    IF j > Len(lys) THEN st
    ELSE CHOOSE done \in
            {RunLayers(lys, after, j + 1, output_attentions) :
             after \in {CallLayer(lys[j], st, output_attentions)}} : TRUE

\* A backbone as loaded, and the arguments of one construction.
InitComposer ==
    /\ n_layer \in ComposerLayers
    /\ layers = [j \in 1 .. n_layer |-> PlainLayer(j - 1)]
    /\ \E frozen \in {{}, BackboneParams(n_layer)} :
        requires_grad = [q \in BackboneParams(n_layer) |-> q \notin frozen]
    /\ layers_to_snap \in ComposerRequests
    /\ similarity_metric \in Metrics
    /\ composer = None
    /\ cm_raised = None
    /\ cm_pc = "new"
    /\ cm_call = <<>>
    /\ cm_ret = <<>>
    /\ cb_counts = <<>>
    /\ nCalls = 0
    /\ SnapIdle
    /\ LayerIdle
    /\ KmeansIdle
    /\ ToyIdle

\* What every call on a built composer does besides its own effect.
Called(name) ==
    /\ cm_pc = "built"
    /\ nCalls < MaxCalls
    /\ nCalls' = nCalls + 1
    /\ cm_call' = name
    /\ UNCHANGED <<n_layer, layers_to_snap, similarity_metric, composer,
                   cm_raised, cm_pc>>
    /\ UNCHANGED <<snapVars, layerVars, kmeansVars, toyVars>>

EnableCodebooks ==
    /\ Called(<<"enable_codebooks">>)
    /\ layers' = SetSnapOfSelected(layers, composer.layers_to_snap, TRUE)
    /\ cm_ret' = <<>>
    /\ UNCHANGED <<requires_grad, cb_counts>>

DisableCodebooks ==
    /\ Called(<<"disable_codebooks">>)
    /\ layers' = SetSnapOfSelected(layers, composer.layers_to_snap, FALSE)
    /\ cm_ret' = <<>>
    /\ UNCHANGED <<requires_grad, cb_counts>>

\* The caller sets the snap attribute of one wrapper.
SetWrapperSnap ==
    \E j \in DOMAIN layers : \E b \in BOOLEAN :
        /\ layers[j].wrapper
        /\ Called(<<"snap", j - 1, b>>)
        /\ layers' = [layers EXCEPT ![j] = SetSnap(@, b)]
        /\ cm_ret' = <<>>
        /\ UNCHANGED <<requires_grad, cb_counts>>

FreezeModelParams ==
    /\ Called(<<"freeze_model_params">>)
    /\ requires_grad' = Frozen(requires_grad)
    /\ cm_ret' = <<>>
    /\ UNCHANGED <<layers, cb_counts>>

UnfreezeModelParams ==
    /\ Called(<<"unfreeze_model_params">>)
    /\ requires_grad' = Unfrozen(requires_grad)
    /\ cm_ret' = <<>>
    /\ UNCHANGED <<layers, cb_counts>>

\* self.forward = self.model.forward: the backbone runs its layer list.
ModelForward ==
    \E hidden_states \in LayerInputs : \E output_attentions \in BOOLEAN :
        \E r \in {RunLayers(layers,
                             [hidden_states |-> hidden_states,
                              counts |-> cb_counts,
                              block_outputs |-> <<>>,
                              layer_outputs |-> <<>>],
                             1, output_attentions)} :
        /\ Called(<<"forward", hidden_states, output_attentions>>)
        /\ cm_ret' = [block_outputs |-> r.block_outputs,
                      layer_outputs |-> r.layer_outputs]
        /\ cb_counts' = r.counts
        /\ UNCHANGED <<layers, requires_grad>>

NextComposer ==
    \/ Construct
    \/ EnableCodebooks
    \/ DisableCodebooks
    \/ SetWrapperSnap
    \/ FreezeModelParams
    \/ UnfreezeModelParams
    \/ ModelForward

SpecComposer == InitComposer /\ [][NextComposer]_vars

\* ---------------------------------------------------------------- ToyGraph
MaxN == 2
MaxLength == 3

\* The arguments the constructor is given: N states and edges per state
\* (more than N included), and the lengths asked of generate_trajectory.
ToySizes == 1 .. MaxN
EdgeCounts == 0 .. (MaxN + 1)
Lengths == 0 .. MaxLength

States(n) == 0 .. (n - 1)

\* The value of 0.0 / 0.0.
NaN == [n |-> 0, d |-> 0]

\* Division of a matrix entry by its row sum; numpy divides 0 by 0 to nan
\* with a warning, not an exception.
RDiv(a, b) == IF b.n = 0 THEN NaN ELSE Rat(a.n * b.d, a.d * b.n)

\* rng.choice(N, size=edges, replace=False): the index sets it can pick.
Choices(n, size) == {S \in SUBSET States(n) : Cardinality(S) = size}

\* The matrix of zeros with ones at picks[i] in row i, every row divided by
\* its sum.
RandomMatrix(n, picks) ==
    LET ones == [i \in States(n) |->
                    [k \in States(n) |-> IF k \in picks[i] THEN RInt(1) ELSE RInt(0)]]
    IN  [i \in States(n) |->
            [k \in States(n) |-> RDiv(ones[i][k], RSum(ones[i], States(n)))]]

\* rng.choice(N, p=row) raises ValueError on probabilities that contain nan.
ChoiceRaises(row) == \E k \in DOMAIN row : row[k] = NaN

step_with_any(matrix, s) == DOMAIN matrix[s]

\* step_with(state): the states rng.choice(N, p=transition_matrix[state])
\* can return, those of positive probability.
step_with(matrix, s) == {k \in DOMAIN matrix[s] : RLt(RInt(0), matrix[s][k])}

RECURSIVE GenerateFrom(_, _, _)
\* The loop of generate_trajectory with `remaining` iterations to go: what
\* it can return, or the exception of the step that raises.
GenerateFrom(matrix, t, remaining) ==
    IF remaining <= 0
    THEN {[raised |-> None, trajectory |-> t]}
    ELSE IF ChoiceRaises(matrix[t[Len(t)]])
    THEN {[raised |-> "ValueError", trajectory |-> <<>>]}
    ELSE UNION {GenerateFrom(matrix, Append(t, k), remaining - 1) :
                    k \in step_with(matrix, t[Len(t)])}

\* generate_trajectory(length): the first state is rng.choice(N).
generate_trajectory(matrix, n, len) ==
    UNION {GenerateFrom(matrix, <<first>>, len - 1) : first \in States(n)}

\* verify_trajectory(traj)
verify_trajectory(matrix, t) ==
    \A i \in 1 .. (Len(t) - 1) : ~(matrix[t[i]][t[i + 1]] = RInt(0))

\* The lists of states a caller can hand to verify_trajectory.
TrajectoriesOver(n) == UNION {[1 .. len -> States(n)] : len \in Lengths}

InitToy ==
    /\ N \in ToySizes
    /\ edges \in EdgeCounts
    /\ transition_matrix = <<>>
    /\ toy_pc = "new"
    /\ toy_call = None
    /\ length = 0
    /\ trajectory = <<>>
    /\ traj = <<>>
    /\ accepted = FALSE
    /\ toy_raised = None
    /\ SnapIdle
    /\ LayerIdle
    /\ KmeansIdle
    /\ ModelIdle

\* ToyGraph(N, transition_matrix=None, edges=edges)
ToyGraph_init ==
    /\ toy_pc = "new"
    /\ toy_call' = "__init__"
    /\ IF edges > N
       THEN \* rng.choice: a sample larger than the population, replace=False
            /\ toy_raised' = "ValueError"
            /\ toy_pc' = "failed"
            /\ UNCHANGED transition_matrix
       ELSE \E picks \in [States(N) -> Choices(N, edges)] :
            /\ transition_matrix' = RandomMatrix(N, picks)
            /\ toy_raised' = None
            /\ toy_pc' = "built"
    /\ UNCHANGED <<N, edges, length, trajectory, traj, accepted>>
    /\ UNCHANGED <<snapVars, layerVars, modelVars, kmeansVars>>

\* generate_trajectory(length)
GenerateTrajectory ==
    /\ toy_pc = "built"
    /\ \E len \in Lengths :
        \E r \in generate_trajectory(transition_matrix, N, len) :
            /\ length' = len
            /\ trajectory' = r.trajectory
            /\ toy_raised' = r.raised
    /\ toy_call' = "generate_trajectory"
    /\ traj' = <<>>
    /\ accepted' = FALSE
    /\ UNCHANGED <<N, edges, transition_matrix, toy_pc>>
    /\ UNCHANGED <<snapVars, layerVars, modelVars, kmeansVars>>

\* verify_trajectory(traj)
VerifyTrajectory ==
    /\ toy_pc = "built"
    /\ \E t \in TrajectoriesOver(N) :
        /\ traj' = t
        /\ accepted' = verify_trajectory(transition_matrix, t)
    /\ toy_call' = "verify_trajectory"
    /\ toy_raised' = None
    /\ length' = 0
    /\ trajectory' = <<>>
    /\ UNCHANGED <<N, edges, transition_matrix, toy_pc>>
    /\ UNCHANGED <<snapVars, layerVars, modelVars, kmeansVars>>

NextToy == ToyGraph_init \/ GenerateTrajectory \/ VerifyTrajectory

SpecToy == InitToy /\ [][NextToy]_vars

\* ================================================================ claims
IntDot(u, v) == ISum([i \in Dims |-> u[i].n * v[i].n], Dims)
IntSqDist(u, v) == ISum([i \in Dims |-> (u[i].n - v[i].n) * (u[i].n - v[i].n)], Dims)

C2_StraightThrough ==
    pc = "backward" =>
        \A p \in Pos : \A i \in Dims : grad_inputs[p][i] = grad_outputs[p][i]

\* A backward pass where two positions selected the same code and received
\* different output gradients.
C2_Witness ==
    /\ pc = "backward"
    /\ codebook_ids[0] = codebook_ids[1]
    /\ grad_outputs[0] # grad_outputs[1]
    /\ grad_inputs = grad_outputs

\* Number of positions, over all hard forwards so far, that selected code k.
TimesSelected(k) ==
    LET batches == BagToSet(selected) IN
    ISum([b \in batches |->
            CopiesIn(b, selected) * Cardinality({p \in DOMAIN b : b[p] = k})],
         batches)

\* C3: the usage count of every code is the number of positions, over all
\* hard forwards since construction, at which it was selected; the counts
\* sum to the number of positions processed.
C3_CountsAccumulate ==
    /\ DOMAIN counts \subseteq DOMAIN weight
    /\ \A k \in DOMAIN weight : Count(counts, k) = TimesSelected(k)
    /\ ISum(counts, DOMAIN counts) = NumPos * BagCardinality(selected)

\* Two hard forwards that both selected code 0 and code 1.
C3_Witness ==
    /\ BagCardinality(selected) = 2
    /\ Cardinality(BagToSet(selected)) = 2
    /\ \A k \in {0, 1} : k \in DOMAIN counts /\ counts[k] >= 2

\* C4: expire_codes(T) overwrites exactly the rows whose count is below T,
\* a code never selected counting as 0, and leaves every row whose count is
\* at least T as it was.
C4_ExpiresExactlyBelowThreshold ==
    call = "expire_codes" =>
        \A k \in DOMAIN weight :
            /\ (k \in expired.written) <=> (Count(counts, k) < expired.threshold)
            /\ Count(counts, k) >= expired.threshold => weight[k] = expired.before[k]

C6_NothingUnderusedIsNoOp ==
    (/\ call = "expire_codes"
     /\ \A k \in DOMAIN weight : Count(counts, k) >= expired.threshold)
        => raised = None /\ weight = expired.before

\* The layer index i denotes on num_layers layers.
Norm(i, num_layers) == IF i < 0 THEN i + num_layers ELSE i

Occurrences(lst, v) == Cardinality({j \in DOMAIN lst : lst[j] = v})

\* C7: construction maps every negative index i of the request to
\* i + num_layers, keeps the others, and stores the result sorted
\* ascending; [-1, -2] on 6 layers selects exactly layers 4 and 5.
C7_IndicesNormalisedAndSorted ==
    cm_pc = "built" =>
        LET stored == composer.layers_to_snap
            wanted == [j \in DOMAIN layers_to_snap |->
                         Norm(layers_to_snap[j], n_layer)]
        IN  /\ Len(stored) = Len(layers_to_snap)
            /\ \A v \in Elems(stored) \cup Elems(wanted) :
                Occurrences(stored, v) = Occurrences(wanted, v)
            /\ \A j \in 1 .. (Len(stored) - 1) : stored[j] <= stored[j + 1]
            /\ (n_layer = 6 /\ layers_to_snap = <<-1, -2>>) =>
                /\ stored = <<4, 5>>
                /\ {j \in DOMAIN layers : layers[j].wrapper} = {5, 6}

\* The composer built from [-1, -2] on a backbone of 6 layers.
C7_Witness ==
    /\ cm_pc = "built"
    /\ n_layer = 6
    /\ layers_to_snap = <<-1, -2>>
    /\ composer.layers_to_snap = <<4, 5>>

ValidMetrics == {"euclidean", "inner_product"}

\* C8: when several requested indices denote the same layer (and all are
\* in range, the metric being recognised), construction succeeds and the
\* stored list holds that layer once.
C8_DuplicatesCollapse ==
    (/\ cm_pc # "new"
     /\ similarity_metric \in ValidMetrics
     /\ \A j \in DOMAIN layers_to_snap :
            Norm(layers_to_snap[j], n_layer) \in 0 .. (n_layer - 1)
     /\ \E j, k \in DOMAIN layers_to_snap :
            /\ j # k
            /\ Norm(layers_to_snap[j], n_layer) = Norm(layers_to_snap[k], n_layer))
        => /\ cm_pc = "built"
           /\ \A v \in Elems(composer.layers_to_snap) :
                Occurrences(composer.layers_to_snap, v) = 1

\* C9: a requested index whose normalised value is outside [0, num_layers)
\* makes construction raise.
C9_OutOfRangeRaises ==
    (/\ cm_pc # "new"
     /\ \E j \in DOMAIN layers_to_snap :
            Norm(layers_to_snap[j], n_layer) \notin 0 .. (n_layer - 1))
        => cm_pc = "failed" /\ cm_raised # None

\* C10: an unrecognised metric makes construction raise (the ValueError of
\* the metric, unless the assertion on the indices fired first) with no
\* layer wrapped; 'euclidean' and 'inner_product' give every installed
\* codebook layer the Euclidean and the inner-product snap function.
C10_MetricSelectsSnapFunction ==
    cm_pc # "new" =>
        /\ similarity_metric \notin ValidMetrics =>
            /\ cm_pc = "failed"
            /\ cm_raised \in {"ValueError", "AssertionError"}
            /\ Len(layers_to_snap) <= n_layer => cm_raised = "ValueError"
            /\ \A j \in DOMAIN layers : layers[j] = PlainLayer(j - 1)
        /\ cm_pc = "built" =>
            LET expected == IF similarity_metric = "euclidean"
                            THEN "EuclideanSnapFunction"
                            ELSE "InnerProductSnapFunction"
            IN  /\ similarity_metric \in ValidMetrics
                /\ \A j \in DOMAIN layers :
                    layers[j].wrapper =>
                        layers[j].codebook_layer.snap_fn = expected
                /\ \A i \in DOMAIN composer.all_codebooks :
                    composer.all_codebooks[i].snap_fn = expected

\* A construction with an unrecognised metric and two layers to wrap.
C10_Witness ==
    /\ cm_pc = "failed"
    /\ similarity_metric = "cosine"
    /\ cm_raised = "ValueError"
    /\ layers_to_snap = <<0, -1>>
    /\ n_layer = 4

RECURSIVE ScatterAddFrom(_, _, _, _)
\* The gradient vectors of positions p, p + 1, ... added, one position at a
\* time, to the rows of acc their indices name.
ScatterAddFrom(acc, idx, g, p) ==
    IF p \notin DOMAIN idx THEN acc
    ELSE ScatterAddFrom([acc EXCEPT ![idx[p]] =
                            [i \in Dims |-> @[i] + g[p][i]]],
                        idx, g, p + 1)

\* C20: the codebook gradient of backward gives every row k the sum of the
\* incoming output-gradient vectors over exactly the positions that
\* selected k in the forward pass, and the zero vector to a row no position
\* selected.
C20_CodebookGradScatters ==
    pc = "backward" =>
        /\ grad_codebook =
            ScatterAddFrom([k \in Codes |-> [i \in Dims |-> 0]],
                           codebook_ids, grad_outputs, 0)
        /\ \A k \in Codes :
            (\A p \in Pos : codebook_ids[p] # k) =>
                \A i \in Dims : grad_codebook[k][i] = 0

\* A backward pass where both positions selected code 1, with different
\* output gradients: row 1 receives their sum and row 0 nothing.
C20_Witness ==
    /\ pc = "backward"
    /\ \A p \in Pos : codebook_ids[p] = 1
    /\ grad_outputs[0] # grad_outputs[1]
    /\ \E i \in Dims : grad_codebook[1][i] # 0
    /\ \A i \in Dims : grad_codebook[0][i] = 0

\* C16: CodebookLayer.forward on a tensor whose rank is not 3 raises at
\* once, in hard and in soft mode: no output, no code selected, and the
\* usage counter and the dictionary as they were before the call.
C16_BadRankFailsFirst ==
    [][(call' = "forward" /\ x_rank' # 3 /\ nForward' = nForward + 1) =>
        /\ raised' = "AssertionError"
        /\ output' = None
        /\ ids' = None
        /\ selected' = selected
        /\ counts' = counts
        /\ weight' = weight]_vars

\* A hard-mode layer that counted the codes of one batch and was then
\* handed a tensor of rank 4.
C16_Witness ==
    /\ call = "forward"
    /\ x_rank = 4
    /\ raised = "AssertionError"
    /\ ~soft_snap
    /\ nForward = 2
    /\ ISum(counts, DOMAIN counts) = NumPos

\* C11: after construction the registry has one entry for every layer whose
\* index is in the stored list, under that index; the layer at each such
\* index is a wrapper around the original layer that owns the registered
\* codebook layer; every other layer is the original layer; on 4 layers,
\* [0, -1] gives the keys {0, 3}.
C11_RegistryMatchesWrappers ==
    cm_pc = "built" =>
        LET reg == composer.all_codebooks
            chosen == {i \in 0 .. (n_layer - 1) :
                         i \in Elems(composer.layers_to_snap)}
        IN  /\ DOMAIN reg = chosen
            /\ Len(layers) = n_layer
            /\ \A i \in 0 .. (n_layer - 1) :
                IF i \in chosen
                THEN /\ layers[i + 1].wrapper
                     /\ layers[i + 1].transformer_layer = PlainLayer(i).transformer_layer
                     /\ layers[i + 1].codebook_layer = reg[i]
                     /\ \A k \in chosen \ {i} : reg[k] # reg[i]
                ELSE layers[i + 1] = PlainLayer(i)
            /\ (n_layer = 4 /\ layers_to_snap = <<0, -1>>) => DOMAIN reg = {0, 3}

\* The composer built from [0, -1] on a backbone of 4 layers.
C11_Witness ==
    /\ cm_pc = "built"
    /\ n_layer = 4
    /\ layers_to_snap = <<0, -1>>
    /\ DOMAIN composer.all_codebooks = {0, 3}
    /\ layers[1].wrapper /\ layers[4].wrapper
    /\ ~layers[2].wrapper /\ ~layers[3].wrapper

\* C12: right after a successful construction every parameter of the
\* backbone is non-trainable, whatever it was before, and every installed
\* codebook parameter is trainable.
C12_BackboneFrozenCodebooksTrainable ==
    (cm_pc = "built" /\ cm_call = <<"__init__">>) =>
        /\ \A q \in BackboneParams(n_layer) : requires_grad[q] = FALSE
        /\ \A i \in DOMAIN composer.all_codebooks :
            requires_grad[<<"codebook", i>>] = TRUE
        /\ \A j \in DOMAIN composer.codebook_params :
            requires_grad[composer.codebook_params[j]] = TRUE

\* A composer just built with two codebooks on a backbone of 3 layers.
C12_Witness ==
    /\ cm_pc = "built"
    /\ cm_call = <<"__init__">>
    /\ n_layer = 3
    /\ Cardinality(DOMAIN composer.all_codebooks) = 2
    /\ \A q \in DOMAIN requires_grad : requires_grad[q] <=> q[1] = "codebook"

\* C19: the backbone group has one entry per layer, in layer order,
\* snapped or not, holding the parameters of the original layer; the
\* codebook group holds the dictionaries of the installed codebook layers,
\* each once; no parameter is in both groups.
C19_ParameterGroups ==
    cm_pc = "built" =>
        LET model_params == composer.model_params
            codebook_params == composer.codebook_params
        IN  /\ Len(model_params) = n_layer
            /\ \A j \in 1 .. n_layer :
                model_params[j] = LayerParameters(PlainLayer(j - 1))
            /\ Elems(codebook_params) =
                {<<"codebook", i>> : i \in DOMAIN composer.all_codebooks}
            /\ Len(codebook_params) = Cardinality(DOMAIN composer.all_codebooks)
            /\ \A j \in DOMAIN model_params :
                Elems(model_params[j]) \cap Elems(codebook_params) = {}

\* A composer whose middle layer of 3 is wrapped.
C19_Witness ==
    /\ cm_pc = "built"
    /\ n_layer = 3
    /\ composer.layers_to_snap = <<1>>
    /\ Len(composer.model_params) = 3
    /\ composer.codebook_params = <<<<"codebook", 1>>>>

\* C13: enable_codebooks sets the snap flag of every wrapper and
\* disable_codebooks clears it, no other layer being changed or given an
\* attribute; setting the flag of one wrapper changes that wrapper only.
C13_TogglesTouchWrappersOnly ==
    [][nCalls' = nCalls + 1 =>
        /\ DOMAIN layers' = DOMAIN layers
        /\ cm_call'[1] \in {"enable_codebooks", "disable_codebooks"} =>
            \A j \in DOMAIN layers :
                layers'[j] =
                    IF layers[j].wrapper
                    THEN [layers[j] EXCEPT !.snap = (cm_call'[1] = "enable_codebooks")]
                    ELSE layers[j]
        /\ cm_call'[1] = "snap" =>
            \A j \in DOMAIN layers :
                layers'[j] =
                    IF j = cm_call'[2] + 1
                    THEN [layers[j] EXCEPT !.snap = cm_call'[3]]
                    ELSE layers[j]]_vars

\* Layers 0 and 3 of 4 wrapped, layer 0 disabled on its own: layer 3 still
\* snaps.
C13_Witness ==
    /\ nCalls = 1
    /\ cm_call[1] = "snap" /\ cm_call[2] = 0 /\ cm_call[3] = FALSE
    /\ n_layer = 4
    /\ layers[1].wrapper /\ ~layers[1].snap
    /\ layers[4].wrapper /\ layers[4].snap
    /\ ~layers[2].wrapper /\ DOMAIN layers[2] = DOMAIN PlainLayer(1)

\* The hidden states layer j of the list was called on in the last forward.
HiddenInto(j) == IF j = 1 THEN cm_call[2] ELSE cm_ret.layer_outputs[j - 1][1]

RECURSIVE UnwrappedFrom(_, _, _, _)
\* What blocks i, i + 1, ... of a backbone of n blocks return, one after
\* the other, from hidden states h.
UnwrappedFrom(h, i, n, output_attentions) ==
    IF i = n THEN <<>>
    ELSE <<Block(i, h, output_attentions)>>
            \o UnwrappedFrom(Block(i, h, output_attentions)[1], i + 1, n,
                             output_attentions)

\* C14: a wrapper whose flag is false returns what the layer it wraps
\* returned on the same arguments; with every wrapper disabled, the layers
\* of the composed model return, one by one, what the blocks of the
\* unwrapped backbone return on the same input.
C14_DisabledIsPassThrough ==
    (nCalls >= 1 /\ cm_call[1] = "forward") =>
        /\ \A j \in DOMAIN layers :
            (layers[j].wrapper /\ ~layers[j].snap) =>
                cm_ret.layer_outputs[j] = Block(j - 1, HiddenInto(j), cm_call[3])
        /\ (\A j \in DOMAIN layers : layers[j].wrapper => ~layers[j].snap) =>
            cm_ret.layer_outputs = UnwrappedFrom(cm_call[2], 0, n_layer, cm_call[3])

\* A forward with both wrappers of a 4-layer model disabled, on hidden
\* states that the codebook of a wrapper would have changed.
C14_Witness ==
    /\ nCalls = 2
    /\ cm_call[1] = "forward"
    /\ n_layer = 4
    /\ Cardinality({j \in DOMAIN layers : layers[j].wrapper}) = 2
    /\ \A j \in DOMAIN layers : layers[j].wrapper => ~layers[j].snap
    /\ \E j \in DOMAIN layers :
        /\ layers[j].wrapper
        /\ SnapApply(layers[j].codebook_layer.snap_fn,
                     cm_ret.layer_outputs[j][1], InstalledWeight(j - 1)).outputs
            # cm_ret.layer_outputs[j][1]

\* C15: a wrapper whose flag is true returns a tuple as long as the one the
\* layer it wraps returned, whose first element is the output of its
\* codebook layer on the first element of that tuple and whose other
\* elements are those of that tuple, in order.
C15_EnabledReplacesFirstOnly ==
    (nCalls >= 1 /\ cm_call[1] = "forward") =>
        \A j \in DOMAIN layers :
            (layers[j].wrapper /\ layers[j].snap) =>
                LET wrapped == Block(j - 1, HiddenInto(j), cm_call[3])
                    returned == cm_ret.layer_outputs[j]
                IN  /\ Len(returned) = Len(wrapped)
                    /\ returned[1] =
                        SnapApply(layers[j].codebook_layer.snap_fn, wrapped[1],
                                  InstalledWeight(j - 1)).outputs
                    /\ \A e \in 2 .. Len(wrapped) : returned[e] = wrapped[e]

\* A forward asking for the attention weights, through an enabled wrapper
\* whose codebook changed the hidden states.
C15_Witness ==
    /\ nCalls >= 1
    /\ cm_call[1] = "forward"
    /\ cm_call[3]
    /\ \E j \in DOMAIN layers :
        /\ layers[j].wrapper /\ layers[j].snap
        /\ Len(cm_ret.layer_outputs[j]) = 3
        /\ cm_ret.layer_outputs[j][1] # cm_ret.block_outputs[j][1]
        /\ cm_ret.layer_outputs[j][3] = <<"attentions", j - 1>>

\* C17: the usage counter of a CodebookLayer changes only in a hard-mode
\* forward of that layer, called directly or by its wrapper with the flag
\* set; a soft forward, expire_codes, a forward of its wrapper with the flag
\* cleared and the forward of another CodebookLayer leave it as it was.
C17_OnlyOwnHardForwardCounts ==
    [][/\ counts' # counts =>
            /\ nForward' = nForward + 1
            /\ call' \in {"forward", "wrapper_forward"}
            /\ call' = "wrapper_forward" => snap
            /\ ~soft_snap
            /\ raised' = None
       /\ call' = "other_forward" => counts' = counts
       /\ other_counts' # other_counts => call' = "other_forward"]_vars

\* A hard-mode layer that counted one batch, and whose wrapper, with the
\* flag cleared, was then called.
C17_Witness ==
    /\ call = "wrapper_forward"
    /\ ~snap
    /\ ~soft_snap
    /\ nForward = 2
    /\ ISum(counts, DOMAIN counts) = NumPos
    /\ other_counts = Counter

\* C18: once a CodebookLayer built with kmeans_init has staged data and
\* initialize(num_codes) has run, every row of the dictionary forward snaps
\* against is one of the centroids the clustering returned.
C18_KmeansSeedsDictionary ==
    (_weight # <<>> /\ DOMAIN _weight = DOMAIN weight) =>
        \A k \in DOMAIN weight : \E c \in DOMAIN _weight : weight[k] = _weight[c]

\* C21: no call lowers the count of a code, expire_codes leaves the counts
\* as they are, and expire_codes(T) overwrites no code whose count has
\* reached T.
C21_CountsOnlyGrow ==
    [][/\ \A k \in DOMAIN weight : Count(counts', k) >= Count(counts, k)
       /\ (call' = "expire_codes" /\ nExpire' = nExpire + 1) =>
            /\ counts' = counts
            /\ \A k \in expired'.written :
                Count(counts, k) < expired'.threshold]_vars

\* C22: when several rows tie for the best score at a position, the snap
\* returns the lowest of their indices; a snap of the same inputs against
\* the same codebook returns the same indices again.
C22_TiesGoToLowestIndex ==
    pc \in {"forward", "backward"} =>
        /\ \A p \in Pos : \A k \in Codes :
            k < codebook_ids[p] =>
                /\ fn = "EuclideanSnapFunction" =>
                    IntSqDist(inputs[p], codebook[k])
                        > IntSqDist(inputs[p], codebook[codebook_ids[p]])
                /\ fn = "InnerProductSnapFunction" =>
                    IntDot(inputs[p], codebook[k])
                        < IntDot(inputs[p], codebook[codebook_ids[p]])
        /\ SnapApply(fn, inputs, codebook).codebook_ids = codebook_ids

\* A Euclidean snap where two different rows are equally near the input at
\* position 0, which receives code 0.
C22_Witness ==
    /\ pc = "forward"
    /\ fn = "EuclideanSnapFunction"
    /\ codebook[0] # codebook[1]
    /\ IntSqDist(inputs[0], codebook[0]) = IntSqDist(inputs[0], codebook[1])
    /\ codebook_ids[0] = 0

\* C23: the dictionary always has num_codes rows of dim entries, num_codes
\* being that of construction; a forward, hard or soft, changes no row, and
\* the rows that change do so in an expire_codes call that wrote them in
\* place.
C23_DictionaryShapeFixed ==
    [][/\ num_codes' = num_codes
       /\ DOMAIN weight = 0 .. (num_codes - 1)
       /\ DOMAIN weight' = DOMAIN weight
       /\ \A k \in DOMAIN weight' : DOMAIN weight'[k] = Dims
       /\ call' = "forward" => weight' = weight
       /\ weight' # weight =>
            /\ call' = "expire_codes"
            /\ \A k \in DOMAIN weight :
                weight'[k] # weight[k] => k \in expired'.written]_vars

\* An expiration, after a hard forward that counted code 0 twice or more,
\* that rewrote row 1 and kept row 0.
C23_Witness ==
    /\ call = "expire_codes"
    /\ num_codes = 2
    /\ expired.written = {1}
    /\ weight[1] # expired.before[1]
    /\ weight[0] = expired.before[0]
    /\ DOMAIN weight = {0, 1}

\* C24: a freeze_model_params or unfreeze_model_params call on a built
\* composer changes the trainable flag of backbone-owned parameters only;
\* every parameter of the codebook parameter group stays trainable.
C24_FreezeSparesCodebooks ==
    [][(cm_pc = "built" /\ nCalls' = nCalls + 1
        /\ cm_call' \in {<<"freeze_model_params">>, <<"unfreeze_model_params">>}) =>
            /\ \A q \in DOMAIN requires_grad :
                requires_grad'[q] # requires_grad[q] => q \in BackboneParams(n_layer)
            /\ \A j \in DOMAIN composer.codebook_params :
                requires_grad'[composer.codebook_params[j]]]_vars

\* C25: a construction that fails on an unrecognised similarity metric
\* leaves the backbone as it was: no layer is wrapped and no trainable flag
\* has changed.
C25_FailedConstructionLeavesBackbone ==
    [][(cm_pc = "new" /\ cm_pc' = "failed" /\ cm_raised' = "ValueError") =>
            /\ layers' = layers
            /\ \A j \in DOMAIN layers' : ~layers'[j].wrapper
            /\ requires_grad' = requires_grad]_vars

\* C26: in a ToyGraph built with a random transition matrix every state has
\* exactly `edges` successors of non-zero probability; every trajectory
\* generate_trajectory(length) returns for a length >= 1 has `length` states
\* in [0, N), each consecutive pair a transition of non-zero probability,
\* and verify_trajectory accepts it.
C26_TrajectoriesAreValid ==
    toy_pc = "built" =>
        /\ \A s \in States(N) :
            Cardinality({k \in States(N) : RLt(RInt(0), transition_matrix[s][k])}) = edges
        /\ (toy_call = "generate_trajectory" /\ toy_raised = None /\ length >= 1) =>
            /\ Len(trajectory) = length
            /\ \A i \in 1 .. Len(trajectory) : trajectory[i] \in States(N)
            /\ \A i \in 1 .. (Len(trajectory) - 1) :
                RLt(RInt(0), transition_matrix[trajectory[i]][trajectory[i + 1]])
            /\ verify_trajectory(transition_matrix, trajectory)
        /\ (toy_call = "verify_trajectory" /\ Len(traj) >= 1
            /\ [raised |-> None, trajectory |-> traj]
                    \in generate_trajectory(transition_matrix, N, Len(traj))) =>
            accepted

C26_Witness ==
    /\ toy_pc = "built" /\ N = 2 /\ edges = 1
    /\ toy_call = "generate_trajectory" /\ toy_raised = None
    /\ length = 3 /\ trajectory = <<1, 0, 0>>
    /\ \E k \in States(N) : transition_matrix[0][k] = RInt(0)

==========================================================================
